---- MODULE Spec2Model ----
(***************************************************************************)
(* KuzuDocumentStore (haystack_integrations/document_stores/kuzu_store/    *)
(* document_store.py): the `documents` node table, the typed-metadata      *)
(* codec (_categorize_meta on write, the three dict updates on read), the  *)
(* duplicate-policy write path, delete, and the filter compiler            *)
(* (_build_filter_query, _build_single_condition, _format_value) together  *)
(* with the engine's evaluation of the predicate text it produces.         *)
(*                                                                         *)
(* Python values are records [t, s, n]: t is the runtime type ("str",      *)
(* "int", "float", "bool", "none", "list"), s the text of a str, n the     *)
(* number of an int or bool, and for a float the number in units of one    *)
(* half (n = 3 is 1.5), so that floats with a fractional part and floats   *)
(* wider than a single-precision significand are both inside TLC's         *)
(* integers.  A list carries its elements in `items`.  A dict is the       *)
(* sequence of its [k, v] items in insertion order, keys unique.           *)
(***************************************************************************)
EXTENDS Integers, Sequences, FiniteSets, TLC

VARIABLES
    rows,      \* the `documents` node table, in the order the engine returns it
    prev,      \* the table as it was when the last call started
    call,      \* the last call: its operation and arguments
    outcome    \* what the last call did: returned (value, documents) or raised

vars == <<rows, prev, call, outcome>>

(***************************************************************************)
(* Bounds of the model.                                                    *)
(***************************************************************************)
MaxBatch == 2         \* documents per write_documents call
MaxDeleteIds == 2     \* ids per delete_documents call
MaxMetaKeys == 2      \* items per metadata dict in the codec specification
MaxConditions == 2    \* children per Logic node

(***************************************************************************)
(* Python values.                                                          *)
(***************************************************************************)
PyStr(x) == [t |-> "str", s |-> x, n |-> 0]
PyInt(x) == [t |-> "int", s |-> "", n |-> x]
PyFloat(halves) == [t |-> "float", s |-> "", n |-> halves]
PyBool(x) == [t |-> "bool", s |-> "", n |-> IF x THEN 1 ELSE 0]
PyNone == [t |-> "none", s |-> "", n |-> 0]
PyList(xs) == [t |-> "list", s |-> "", n |-> 0, items |-> xs]

\* isinstance(value, str) / isinstance(value, int) / isinstance(value, float):
\* bool is a subclass of int, so isinstance(True, int) holds.
IsInstanceStr(v) == v.t = "str"
IsInstanceInt(v) == v.t \in {"int", "bool"}
IsInstanceFloat(v) == v.t = "float"
IsInstanceList(v) == v.t = "list"

Item(key, value) == [k |-> key, v |-> value]
Keys(d) == {d[i].k : i \in 1..Len(d)}
HasKey(d, key) == \E i \in 1..Len(d) : d[i].k = key
Get(d, key) == d[CHOOSE i \in 1..Len(d) : d[i].k = key].v

\* dict.update(other): an existing key keeps its place and takes the new value,
\* a new key is appended.
RECURSIVE Update(_, _)
Update(d, other) ==
    IF other = <<>> THEN d
    ELSE LET e == Head(other)
             d1 == IF HasKey(d, e.k)
                   THEN [i \in 1..Len(d) |-> IF d[i].k = e.k THEN e ELSE d[i]]
                   ELSE Append(d, e)
         IN  Update(d1, Tail(other))

\* The value as a number of halves, for Python's and the engine's numeric
\* comparisons.
Halves(v) == IF v.t = "float" THEN v.n ELSE 2 * v.n
IsNumber(v) == v.t \in {"int", "bool", "float"}

(***************************************************************************)
(* Document(id, content, meta).                                            *)
(***************************************************************************)
Document(id, content, meta) == [id |-> id, content |-> content, meta |-> meta]

(***************************************************************************)
(* The engine's column types of the `documents` table (CREATE NODE TABLE). *)
(***************************************************************************)
\* FLOAT is the engine's 4-byte single-precision type: a significand of 24
\* bits (DOUBLE is its 8-byte type).
FloatSignificandBits == 24

Pow2(k) == 2 ^ k

\* Bits needed to write m > 0.
RECURSIVE BitLen(_)
BitLen(m) == IF m = 0 THEN 0 ELSE 1 + BitLen(m \div 2)

\* m (a natural number of halves) rounded to the nearest value with at most
\* `bits` significant bits, ties to the even significand.
RoundToBits(m, bits) ==
    IF BitLen(m) <= bits THEN m
    ELSE LET sh == BitLen(m) - bits
             q == m \div Pow2(sh)
             r == m % Pow2(sh)
             half == Pow2(sh - 1)
             up == r > half \/ (r = half /\ q % 2 = 1)
         IN  (IF up THEN q + 1 ELSE q) * Pow2(sh)

\* A value stored in a MAP(STRING, STRING) / MAP(STRING, INT64) /
\* MAP(STRING, FLOAT) column takes the column's value type.
CastSTRING(v) == v
CastINT64(v) == PyInt(v.n)
CastFLOAT(v) ==
    PyFloat(IF v.n >= 0 THEN RoundToBits(v.n, FloatSignificandBits)
          ELSE 0 - RoundToBits(0 - v.n, FloatSignificandBits))

\* The value as the column of that name holds it.
Cast(column, v) ==
    CASE column = "meta_STRING" -> CastSTRING(v)
      [] column = "meta_INT" -> CastINT64(v)
      [] column = "meta_FLOAT" -> CastFLOAT(v)

\* The {"key": [...], "value": [...]} parameter as the column's MAP value.
ToMap(param, column) ==
    [i \in 1..Len(param.key) |-> Item(param.key[i], Cast(column, param.value[i]))]

(***************************************************************************)
(* _categorize_meta                                                        *)
(***************************************************************************)
GoesToSTRING(v) == IsInstanceStr(v)
GoesToINT(v) == ~IsInstanceStr(v) /\ IsInstanceInt(v)
GoesToFLOAT(v) == ~IsInstanceStr(v) /\ ~IsInstanceInt(v) /\ IsInstanceFloat(v)

\* The bucket of that name after the loop over meta.items().
KeyValue(meta, bucket) ==
    LET sel == SelectSeq(meta, LAMBDA e :
                   CASE bucket = "meta_STRING" -> GoesToSTRING(e.v)
                     [] bucket = "meta_INT" -> GoesToINT(e.v)
                     [] bucket = "meta_FLOAT" -> GoesToFLOAT(e.v))
    IN  [key |-> [i \in 1..Len(sel) |-> sel[i].k],
         value |-> [i \in 1..Len(sel) |-> sel[i].v]]

_categorize_meta(meta) ==
    [meta_STRING |-> KeyValue(meta, "meta_STRING"),
     meta_INT |-> KeyValue(meta, "meta_INT"),
     meta_FLOAT |-> KeyValue(meta, "meta_FLOAT")]

(***************************************************************************)
(* The engine: MATCH, DELETE, CREATE on the documents table, and cursors.  *)
(***************************************************************************)
\* MATCH (d:documents) WHERE d.id = $id
MatchId(table, id) == SelectSeq(table, LAMBDA r : r.id = id)

\* result.has_next()
has_next(cursor) == cursor # <<>>

\* DeleteId without its WHERE clause.
DeleteEvery(table, id) == <<>>

\* MATCH (d:documents) WHERE d.id = $id DELETE d
DeleteId(table, id) == SelectSeq(table, LAMBDA r : r.id # id)

\* A table declared without PRIMARY KEY (id).
NoPrimaryKey(table, id) == FALSE

\* PRIMARY KEY (id): CREATE of an id the table holds is refused by the engine.
ViolatesPrimaryKey(table, id) == \E i \in 1..Len(table) : table[i].id = id

\* The node CREATE (d:documents {...}) adds, each parameter in its column type.
NewRow(doc) ==
    LET categorized_meta == _categorize_meta(doc.meta)
    IN  [id |-> doc.id,
         content |-> doc.content,
         meta_STRING |-> ToMap(categorized_meta.meta_STRING, "meta_STRING"),
         meta_INT |-> ToMap(categorized_meta.meta_INT, "meta_INT"),
         meta_FLOAT |-> ToMap(categorized_meta.meta_FLOAT, "meta_FLOAT")]

CreateRow(table, doc) == Append(table, NewRow(doc))

\* MATCH (d:documents) RETURN count(d)
count_documents(table) == Len(table)

(***************************************************************************)
(* DuplicatePolicy                                                         *)
(***************************************************************************)
PolicyNames == {"none", "skip", "overwrite", "fail"}
Enum(name) == [kind |-> "enum", v |-> name]
Text(name) == [kind |-> "str", v |-> name]

\* if isinstance(policy, str): policy = DuplicatePolicy(policy)
IsValidPolicy(policy) == policy.kind = "enum" \/ policy.v \in PolicyNames
ToPolicy(policy) == Enum(policy.v)

\* What a call did: the table it leaves and what the caller gets, the value
\* returned (an int, or the documents) or the exception raised, with the
\* position in the batch at which it was raised.
Returned(table, value, docs) ==
    [rows |-> table,
     out |-> [kind |-> "return", error |-> "", value |-> value, at |-> 0,
              documents |-> docs]]
Raised(table, error, at) ==
    [rows |-> table,
     out |-> [kind |-> "raise", error |-> error, value |-> 0, at |-> at,
              documents |-> <<>>]]

(***************************************************************************)
(* write_documents: the loop over the batch, from document i on.           *)
(***************************************************************************)
\* OnExisting with FAIL taking SKIP's branch.
OnExistingFailContinues(exists, p) ==
    IF exists /\ p \in {Enum("fail"), Enum("skip")} THEN "continue"
    ELSE IF exists /\ p = Enum("overwrite") THEN "delete"
    ELSE "create"

\* OnExisting with OVERWRITE taking SKIP's branch.
OnExistingOverwriteContinues(exists, p) ==
    IF exists /\ p = Enum("fail") THEN "raise"
    ELSE IF exists /\ p \in {Enum("skip"), Enum("overwrite")} THEN "continue"
    ELSE "create"

\* OnExisting with SKIP taking OVERWRITE's branch.
OnExistingSkipDeletes(exists, p) ==
    IF exists /\ p = Enum("fail") THEN "raise"
    ELSE IF exists /\ p \in {Enum("skip"), Enum("overwrite")} THEN "delete"
    ELSE "create"

\* if result.has_next(): the branch the policy takes for a stored id; any
\* other case falls through to the CREATE.
OnExisting(exists, p) ==
    IF exists /\ p = Enum("fail") THEN "raise"
    ELSE IF exists /\ p = Enum("skip") THEN "continue"
    ELSE IF exists /\ p = Enum("overwrite") THEN "delete"
    ELSE "create"

RECURSIVE WriteFrom(_, _, _, _, _)
WriteFrom(table, documents, policy, i, document_written) ==
    IF i > Len(documents) THEN Returned(table, document_written, <<>>)
    ELSE
      LET doc == documents[i]
          result == MatchId(table, doc.id)
      IN
      IF ~IsValidPolicy(policy) THEN Raised(table, "ValueError", i)
      ELSE
        LET branch == OnExisting(has_next(result), ToPolicy(policy)) IN
        IF branch = "raise" THEN Raised(table, "DuplicateDocumentError", i)
        ELSE IF branch = "continue"
          THEN WriteFrom(table, documents, policy, i + 1, document_written)
        ELSE
          LET kept == IF branch = "delete" THEN DeleteId(table, doc.id) ELSE table
          IN  IF ViolatesPrimaryKey(kept, doc.id)
                THEN Raised(kept, "RuntimeError", i)
              ELSE WriteFrom(CreateRow(kept, doc), documents, policy, i + 1,
                             document_written + 1)

WriteDocuments(table, documents, policy) ==
    WriteFrom(table, documents, policy, 1, 0)

(***************************************************************************)
(* delete_documents: the loop over the ids, from id i on.  The existence   *)
(* check reads result.get_next() without asking has_next() first; what     *)
(* get_next does on a cursor with no row is the engine's: `exhausted` is   *)
(* "None" when it returns None and "RuntimeError" when it raises.          *)
(***************************************************************************)
ExhaustedOutcomes == {"None", "RuntimeError"}

RECURSIVE DeleteFrom(_, _, _, _)
DeleteFrom(table, document_ids, i, exhausted) ==
    IF i > Len(document_ids) THEN Returned(table, 0, <<>>)
    ELSE
      LET doc_id == document_ids[i]
          result == MatchId(table, doc_id)
      IN
      IF ~has_next(result)
        THEN IF exhausted = "None"
               THEN Raised(table, "MissingDocumentError", i)
             ELSE Raised(table, "RuntimeError", i)
      ELSE DeleteFrom(DeleteId(table, doc_id), document_ids, i + 1, exhausted)

DeleteDocuments(table, document_ids, exhausted) ==
    DeleteFrom(table, document_ids, 1, exhausted)

(***************************************************************************)
(* Filters.  A Comparison is [field, operator, value], a Logic node is     *)
(* [operator, conditions]; which one a dict is, the code decides by the    *)
(* keys it holds.  A field is the text prefix + key, split where           *)
(* startswith("meta.") and split("meta.", 1) look: Field("meta.", "type")  *)
(* is "meta.type", Field("", "content") is "content".                      *)
(***************************************************************************)
Field(prefix, key) == [prefix |-> prefix, key |-> key]
Comparison(field, operator, value) ==
    [field |-> field, operator |-> operator, value |-> value]
Logic(operator, conditions) == [operator |-> operator, conditions |-> conditions]
NoFilters == [absent |-> TRUE]

\* str.upper() on the operator names the model uses.
Upper(name) ==
    CASE name = "and" -> "AND"
      [] name = "or" -> "OR"
      [] name = "not" -> "NOT"
      [] OTHER -> name

(***************************************************************************)
(* The predicate text is a sequence of tokens: a map_extract(...)[1]       *)
(* access, a comparison operator, a literal, a bracketed list of literals, *)
(* the keywords AND, OR, NOT and the two parentheses.                      *)
(***************************************************************************)
Access(column, key) == [tok |-> "access", column |-> column, key |-> key]
Op(name) == [tok |-> "op", name |-> name]
Literal(value) == [tok |-> "literal", value |-> value]
Keyword(name) == [tok |-> name]
LPAREN == [tok |-> "("]
RPAREN == [tok |-> ")"]

Built(text) == [ok |-> TRUE, text |-> text, error |-> ""]
Failed(error) == [ok |-> FALSE, text |-> <<>>, error |-> error]

\* _format_value: a str in single quotes, None as null, any other value as
\* Python prints it.  The literal keeps the value and so its type.
_format_value(value) == Literal(value)

\* ", ".join([self._format_value(v) for v in value]) between [ and ]
ListLiteral(value) ==
    [tok |-> "list",
     values |-> [i \in 1..Len(value.items) |-> _format_value(value.items[i])]]

(***************************************************************************)
(* _build_single_condition                                                 *)
(***************************************************************************)
_build_single_condition(condition) ==
    LET field == condition.field
        key == field.key
        value == condition.value
        op == condition.operator
        column == IF IsInstanceStr(value) THEN "meta_STRING"
                  ELSE IF IsInstanceInt(value) THEN "meta_INT"
                  ELSE "meta_FLOAT"
        field_access == Access(column, key)
        formatted_value == _format_value(value)
    IN
    IF field.prefix # "meta." THEN Failed("ValueError")
    ELSE IF ~(IsInstanceStr(value) \/ IsInstanceInt(value) \/ IsInstanceFloat(value))
      THEN Failed("ValueError")
    ELSE IF op = "==" THEN Built(<<field_access, Op("="), formatted_value>>)
    ELSE IF op = "!=" THEN Built(<<field_access, Op("<>"), formatted_value>>)
    ELSE IF op = ">=" THEN Built(<<field_access, Op(">="), formatted_value>>)
    ELSE IF op = "<=" THEN Built(<<field_access, Op("<="), formatted_value>>)
    ELSE IF op = ">" THEN Built(<<field_access, Op(">"), formatted_value>>)
    ELSE IF op = "<" THEN Built(<<field_access, Op("<"), formatted_value>>)
    ELSE IF op = "in"
      THEN IF ~IsInstanceList(value) THEN Failed("ValueError")
           ELSE Built(<<field_access, Op("IN"), ListLiteral(value)>>)
    ELSE IF op = "not in"
      THEN IF ~IsInstanceList(value) THEN Failed("ValueError")
           ELSE Built(<<field_access, Op("NOT IN"), ListLiteral(value)>>)
    ELSE Failed("ValueError")

(***************************************************************************)
(* _build_filter_query                                                     *)
(***************************************************************************)
\* f" {operator} ".join(conditions)
RECURSIVE Join(_, _)
Join(operator, conditions) ==
    IF conditions = <<>> THEN <<>>
    ELSE IF Len(conditions) = 1 THEN conditions[1]
    ELSE conditions[1] \o <<Keyword(operator)>> \o Join(operator, Tail(conditions))

RECURSIVE _build_filter_query(_)
RECURSIVE BuildConditions(_, _, _, _)

\* The loop over filters["conditions"], from child i on, `conditions` being
\* the texts appended so far.
BuildConditions(operator, children, i, conditions) ==
    IF i > Len(children)
      THEN LET joined_conditions == Join(operator, conditions)
           IN  Built(IF Len(conditions) > 1
                     THEN <<LPAREN>> \o joined_conditions \o <<RPAREN>>
                     ELSE joined_conditions)
    ELSE
      LET condition == children[i] IN
      IF "conditions" \in DOMAIN condition
        THEN LET nested_query == _build_filter_query(condition) IN
             IF ~nested_query.ok THEN nested_query
             ELSE BuildConditions(operator, children, i + 1,
                    Append(conditions,
                           IF operator = "NOT"
                           THEN <<Keyword("NOT"), LPAREN>> \o nested_query.text
                                    \o <<RPAREN>>
                           ELSE <<LPAREN>> \o nested_query.text \o <<RPAREN>>))
      ELSE LET single == _build_single_condition(condition) IN
           IF ~single.ok THEN single
           ELSE BuildConditions(operator, children, i + 1,
                                Append(conditions, single.text))

_build_filter_query(filters) ==
    IF "absent" \in DOMAIN filters THEN Built(<<>>)
    ELSE IF {"field", "operator", "value"} \subseteq DOMAIN filters
      THEN _build_single_condition(filters)
    ELSE
      LET operator == Upper(IF "operator" \in DOMAIN filters
                            THEN filters.operator ELSE "AND")
          children == IF "conditions" \in DOMAIN filters
                      THEN filters.conditions ELSE <<>>
      IN  IF operator \notin {"AND", "OR", "NOT"} THEN Failed("ValueError")
          ELSE BuildConditions(operator, children, 1, <<>>)

(***************************************************************************)
(* The engine's reading of a predicate: its grammar binds OR weakest, then *)
(* AND, then NOT, then a comparison; a parenthesised predicate is an       *)
(* operand.  Truth values are "T", "F" and "N" (null): a comparison with   *)
(* a missing map entry is null, and WHERE keeps the rows whose predicate   *)
(* is "T".                                                                 *)
(***************************************************************************)
Not3(a) == CASE a = "T" -> "F" [] a = "F" -> "T" [] OTHER -> "N"
And3(a, b) ==
    IF a = "F" \/ b = "F" THEN "F" ELSE IF a = "T" /\ b = "T" THEN "T" ELSE "N"
Or3(a, b) ==
    IF a = "T" \/ b = "T" THEN "T" ELSE IF a = "F" /\ b = "F" THEN "F" ELSE "N"
Truth(b) == IF b THEN "T" ELSE "F"

\* The strings of the model in the engine's (lexicographic) order.
Collation == <<"article", "blog", "news">>
Rank(x) == CHOOSE i \in 1..Len(Collation) : Collation[i] = x

\* Order of two values of one column type: -1, 0 or 1.
Order(a, b) ==
    IF a.t = "str"
      THEN IF a.s = b.s THEN 0 ELSE IF Rank(a.s) < Rank(b.s) THEN 0 - 1 ELSE 1
    ELSE IF Halves(a) = Halves(b) THEN 0
    ELSE IF Halves(a) < Halves(b) THEN 0 - 1 ELSE 1

\* map_extract(d.<column>, '<key>')[1]
Extract(row, column, key) ==
    IF HasKey(row[column], key) THEN Get(row[column], key) ELSE PyNone

Compare(name, a, operand) ==
    IF a.t = "none" THEN "N"
    ELSE IF name \in {"IN", "NOT IN"}
      THEN LET found == \E i \in 1..Len(operand.values) :
                            /\ operand.values[i].value.t # "none"
                            /\ Order(a, operand.values[i].value) = 0
           IN  Truth(found = (name = "IN"))
    ELSE IF operand.value.t = "none" THEN "N"
    ELSE LET o == Order(a, operand.value) IN
         CASE name = "=" -> Truth(o = 0)
           [] name = "<>" -> Truth(o # 0)
           [] name = ">=" -> Truth(o >= 0)
           [] name = "<=" -> Truth(o <= 0)
           [] name = ">" -> Truth(o > 0)
           [] name = "<" -> Truth(o < 0)

Parsed(val, pos) == [ok |-> TRUE, val |-> val, pos |-> pos]
SyntaxError == [ok |-> FALSE, val |-> "N", pos |-> 0]
TokAt(text, i) == IF i <= Len(text) THEN text[i].tok ELSE "end"

RECURSIVE ParseOr(_, _, _)
RECURSIVE OrRest(_, _, _)
RECURSIVE ParseAnd(_, _, _)
RECURSIVE AndRest(_, _, _)
RECURSIVE ParseNot(_, _, _)
RECURSIVE ParseComparison(_, _, _)

ParseOr(text, i, row) ==
    LET a == ParseAnd(text, i, row) IN IF a.ok THEN OrRest(text, a, row) ELSE a

OrRest(text, a, row) ==
    IF TokAt(text, a.pos) = "OR"
      THEN LET b == ParseAnd(text, a.pos + 1, row) IN
           IF b.ok THEN OrRest(text, Parsed(Or3(a.val, b.val), b.pos), row) ELSE b
    ELSE a

ParseAnd(text, i, row) ==
    LET a == ParseNot(text, i, row) IN IF a.ok THEN AndRest(text, a, row) ELSE a

AndRest(text, a, row) ==
    IF TokAt(text, a.pos) = "AND"
      THEN LET b == ParseNot(text, a.pos + 1, row) IN
           IF b.ok THEN AndRest(text, Parsed(And3(a.val, b.val), b.pos), row) ELSE b
    ELSE a

ParseNot(text, i, row) ==
    IF TokAt(text, i) = "NOT"
      THEN LET a == ParseNot(text, i + 1, row) IN
           IF a.ok THEN Parsed(Not3(a.val), a.pos) ELSE a
    ELSE ParseComparison(text, i, row)

ParseComparison(text, i, row) ==
    IF TokAt(text, i) = "("
      THEN LET a == ParseOr(text, i + 1, row) IN
           IF a.ok /\ TokAt(text, a.pos) = ")" THEN Parsed(a.val, a.pos + 1)
           ELSE SyntaxError
    ELSE IF /\ TokAt(text, i) = "access"
            /\ TokAt(text, i + 1) = "op"
            /\ TokAt(text, i + 2) =
                 (IF text[i + 1].name \in {"IN", "NOT IN"} THEN "list" ELSE "literal")
      THEN Parsed(Compare(text[i + 1].name,
                          Extract(row, text[i].column, text[i].key),
                          text[i + 2]), i + 3)
    ELSE SyntaxError

\* The predicate's value on a row, or "error" when the text is no predicate.
Evaluate(text, row) ==
    LET a == ParseOr(text, 1, row) IN
    IF a.ok /\ a.pos = Len(text) + 1 THEN a.val ELSE "error"

\* Whether the text parses does not depend on the row.
BlankRow ==
    [id |-> "", content |-> "", meta_STRING |-> <<>>, meta_INT |-> <<>>,
     meta_FLOAT |-> <<>>]
IsPredicate(text) == Evaluate(text, BlankRow) # "error"

(***************************************************************************)
(* filter_documents                                                        *)
(***************************************************************************)
\* The loop body: one returned row as a Document.
RowToDocument(row) ==
    LET meta0 == <<>>
        meta1 == IF row.meta_STRING # <<>> THEN Update(meta0, row.meta_STRING) ELSE meta0
        meta2 == IF row.meta_INT # <<>> THEN Update(meta1, row.meta_INT) ELSE meta1
        meta3 == IF row.meta_FLOAT # <<>> THEN Update(meta2, row.meta_FLOAT) ELSE meta2
    IN  Document(row.id, row.content, meta3)

FilterDocuments(table, filters) ==
    IF "absent" \in DOMAIN filters
      THEN Returned(table, 0, [i \in 1..Len(table) |-> RowToDocument(table[i])])
    ELSE
      LET where_clause == _build_filter_query(filters) IN
      IF ~where_clause.ok THEN Raised(table, where_clause.error, 0)
      ELSE IF ~IsPredicate(where_clause.text) THEN Raised(table, "RuntimeError", 0)
      ELSE LET hits == SelectSeq(table,
                          LAMBDA r : Evaluate(where_clause.text, r) = "T")
           IN  Returned(table, 0, [i \in 1..Len(hits) |-> RowToDocument(hits[i])])

(***************************************************************************)
(* Inputs.                                                                 *)
(***************************************************************************)
SeqsUpTo(S, n) == UNION {[1..k -> S] : k \in 0..n}

NoCall ==
    [op |-> "init", documents |-> <<>>, policy |-> Enum("none"),
     document_ids |-> <<>>, filters |-> NoFilters, exhausted |-> "None"]

Ids == {"1", "2"}
Contents == {"test", "updated"}
StoreMetas ==
    {<<>>, <<Item("type", PyStr("article")), Item("rating", PyInt(4))>>}
StoreDocs ==
    {Document(id, content, meta) : id \in Ids, content \in Contents, meta \in StoreMetas}

\* The policy as callers pass it: a DuplicatePolicy member, its value as a
\* string (the tests pass "fail", "skip", "overwrite"), or a string that
\* names no member.
PolicyInputs ==
    {Enum(name) : name \in PolicyNames} \cup {Text(name) : name \in PolicyNames}
        \cup {Text("replace")}

(***************************************************************************)
(* The calls.  Each is the whole method.  The store serves one call at a   *)
(* time: a call starts when the caller holds no result (call = NoCall) and *)
(* leaves its record in call, prev and outcome until the caller takes it.  *)
(***************************************************************************)
NoOutcome ==
    [kind |-> "return", error |-> "", value |-> 0, at |-> 0, documents |-> <<>>]

Idle == call = NoCall

Finish(c, result) ==
    /\ Idle
    /\ LET r == result IN rows' = r.rows /\ outcome' = r.out
    /\ prev' = rows
    /\ call' = c

WriteCall(documents, policy) ==
    Finish([NoCall EXCEPT !.op = "write_documents", !.documents = documents,
                          !.policy = policy],
           WriteDocuments(rows, documents, policy))

DeleteCall(document_ids, exhausted) ==
    Finish([NoCall EXCEPT !.op = "delete_documents", !.document_ids = document_ids,
                          !.exhausted = exhausted],
           DeleteDocuments(rows, document_ids, exhausted))

FilterCall(filters) ==
    Finish([NoCall EXCEPT !.op = "filter_documents", !.filters = filters],
           FilterDocuments(rows, filters))

write_documents ==
    /\ Idle
    /\ \E documents \in SeqsUpTo(StoreDocs, MaxBatch), policy \in PolicyInputs :
          WriteCall(documents, policy)

delete_documents ==
    /\ Idle
    /\ \E document_ids \in SeqsUpTo(Ids, MaxDeleteIds), exhausted \in ExhaustedOutcomes :
          DeleteCall(document_ids, exhausted)

filter_documents == FilterCall(NoFilters)

count_documents_call ==
    Finish([NoCall EXCEPT !.op = "count_documents"],
           Returned(rows, count_documents(rows), <<>>))

\* The caller takes the result (the value or the exception).
TakeResult ==
    /\ call # NoCall
    /\ call' = NoCall
    /\ prev' = rows
    /\ outcome' = NoOutcome
    /\ UNCHANGED rows

Init ==
    /\ rows = <<>>
    /\ prev = <<>>
    /\ call = NoCall
    /\ outcome = NoOutcome

Next ==
    \/ write_documents
    \/ delete_documents
    \/ filter_documents
    \/ count_documents_call
    \/ TakeResult

Spec == Init /\ [][Next]_vars

(***************************************************************************)
(* The filter specification: the three documents of test_complex_filters,  *)
(* written one at a time, and filter_documents over a family of filters.   *)
(***************************************************************************)
FilterDocs ==
    {Document("1", "doc1", <<Item("type", PyStr("article")), Item("rating", PyInt(4))>>),
     Document("2", "doc2", <<Item("type", PyStr("blog")), Item("rating", PyInt(3))>>),
     Document("3", "doc3", <<Item("type", PyStr("article")), Item("rating", PyInt(5))>>)}

ComparisonOperators == {"==", "!=", ">", ">=", "<", "<=", "in", "not in", "like"}

\* Comparisons whose value has the type of the stored values of the key, or
\* is a list of such values.
TypedComparisons ==
    {Comparison(Field("meta.", "type"), op, value) :
        op \in ComparisonOperators,
        value \in {PyStr("article"), PyStr("blog"),
                   PyList(<<PyStr("article"), PyStr("news")>>)}}
    \cup
    {Comparison(Field("meta.", "rating"), op, value) :
        op \in ComparisonOperators,
        value \in {PyInt(4), PyInt(5), PyList(<<PyInt(3), PyInt(4)>>)}}

\* Comparisons the compiler refuses for their field or value.
RefusedComparisons ==
    {Comparison(Field("", "content"), "==", PyStr("article")),
     Comparison(Field("meta.", "rating"), "==", PyNone)}

NestLeaves ==
    {Comparison(Field("meta.", "type"), "==", PyStr("article")),
     Comparison(Field("meta.", "rating"), ">=", PyInt(4)),
     Comparison(Field("meta.", "rating"), "<", PyInt(5))}

LogicOperators == {"AND", "OR", "NOT", "and", "XOR"}

Logic1 ==
    {Logic(op, cs) : op \in LogicOperators,
                     cs \in SeqsUpTo(NestLeaves, MaxConditions) \ {<<>>}}
Logic2 ==
    {Logic(op, <<n>>) : op \in LogicOperators, n \in Logic1}
    \cup {Logic(op, <<leaf, n>>) : op \in LogicOperators, leaf \in NestLeaves, n \in Logic1}

FilterInputs ==
    {NoFilters} \cup TypedComparisons \cup RefusedComparisons \cup Logic1 \cup Logic2

write_filter_documents ==
    Idle /\ \E doc \in FilterDocs : WriteCall(<<doc>>, Enum("none"))

filter_documents_with ==
    Idle /\ \E filters \in FilterInputs : FilterCall(filters)

FilterNext ==
    \/ write_filter_documents
    \/ filter_documents_with
    \/ TakeResult

FilterSpec == Init /\ [][FilterNext]_vars

(***************************************************************************)
(* The codec specification: one document written with metadata of every    *)
(* value type, and read back.                                              *)
(***************************************************************************)
CodecKeys == {"type", "rating"}

\* 1.5 is 3 halves; 16777217.0 is 33554434 halves, a float (a double) whose
\* significand needs 25 bits.
CodecValues ==
    {PyStr("article"), PyInt(4), PyFloat(3), PyFloat(33554434), PyBool(TRUE),
     PyNone, PyList(<<PyInt(4)>>)}

CodecMetas ==
    {m \in SeqsUpTo({Item(key, value) : key \in CodecKeys, value \in CodecValues},
                    MaxMetaKeys) :
        \A i, j \in 1..Len(m) : m[i].k = m[j].k => i = j}

write_codec_document ==
    /\ Idle
    /\ \E meta \in CodecMetas, policy \in {Enum("none"), Enum("overwrite")} :
          WriteCall(<<Document("1", "test", meta)>>, policy)

CodecNext ==
    \/ write_codec_document
    \/ filter_documents
    \/ TakeResult

CodecSpec == Init /\ [][CodecNext]_vars

(***************************************************************************)
(* Properties of the store's calls, read off the record of the last call.  *)
(***************************************************************************)
\* Python's ==: numbers compare by value across int, bool and float.
PyEq(v, w) ==
    IF IsNumber(v) /\ IsNumber(w) THEN Halves(v) = Halves(w) ELSE v = w

\* Python's == on dicts: the same keys with equal values, in any order.
DictEq(a, b) ==
    /\ Keys(a) = Keys(b)
    /\ \A key \in Keys(a) : PyEq(Get(a, key), Get(b, key))

Present(table, id) == \E i \in 1..Len(table) : table[i].id = id
StoredIds(table) == {table[i].id : i \in 1..Len(table)}
Min(S) == CHOOSE x \in S : \A y \in S : x <= y
Max(S) == CHOOSE x \in S : \A y \in S : x >= y

BatchIds(documents, upto) == {documents[j].id : j \in 1..upto}

\* The positions of the batch whose id is stored when the loop reaches them,
\* every earlier document of the batch having been written or being stored.
PresentWhenReached(table, documents) ==
    {i \in 1..Len(documents) :
        Present(table, documents[i].id) \/ documents[i].id \in BatchIds(documents, i - 1)}

IsWrite(name) == call.op = "write_documents" /\ call.policy.v = name

\* C1: under policy FAIL the call raises DuplicateDocumentError at the first
\* document whose id is stored when the loop reaches it; that id's row is the
\* one stored before, the documents before it are stored (the count grows by
\* their number), and no other id's row is touched.
C1_FailRaisesAtFirstDuplicate ==
    IsWrite("fail") =>
      LET documents == call.documents
          dups == PresentWhenReached(prev, documents)
      IN  dups # {} =>
            LET k == Min(dups) IN
            /\ outcome.kind = "raise"
            /\ outcome.error = "DuplicateDocumentError"
            /\ outcome.at = k
            /\ Present(prev, documents[k].id) =>
                 MatchId(rows, documents[k].id) = MatchId(prev, documents[k].id)
            /\ \A j \in 1..(k - 1) :
                 MatchId(rows, documents[j].id) = <<NewRow(documents[j])>>
            /\ count_documents(rows) = count_documents(prev) + (k - 1)
            /\ \A id \in (StoredIds(prev) \cup StoredIds(rows) \cup BatchIds(documents, Len(documents)))
                           \ BatchIds(documents, k - 1) :
                 MatchId(rows, id) = MatchId(prev, id)

C1_Witness ==
    /\ IsWrite("fail")
    /\ Len(call.documents) = 2
    /\ ~Present(prev, call.documents[1].id)
    /\ Present(prev, call.documents[2].id)
    /\ MatchId(prev, call.documents[2].id)[1].content # call.documents[2].content
    /\ outcome.error = "DuplicateDocumentError"
    /\ count_documents(rows) = count_documents(prev) + 1

\* C2: under policy OVERWRITE every document counts as written; afterwards
\* each id of the batch has exactly one row, which reads back with the
\* content and exactly the metadata of the last document of that id, the
\* count grows only by the ids that were not stored (not at all for a stored
\* id), and every other row is unchanged.
C2_OverwriteReplacesRow ==
    IsWrite("overwrite") =>
      LET documents == call.documents
          n == Len(documents)
      IN
      /\ outcome.kind = "return"
      /\ outcome.value = n
      /\ \A i \in 1..n :
           LET id == documents[i].id
               last == documents[Max({j \in 1..n : documents[j].id = id})]
               found == MatchId(rows, id)
           IN  /\ Len(found) = 1
               /\ RowToDocument(found[1]).content = last.content
               /\ DictEq(RowToDocument(found[1]).meta, last.meta)
      /\ count_documents(rows) =
           count_documents(prev) + Cardinality(BatchIds(documents, n) \ StoredIds(prev))
      /\ \A id \in (StoredIds(prev) \cup StoredIds(rows)) \ BatchIds(documents, n) :
           MatchId(rows, id) = MatchId(prev, id)

C2_Witness ==
    /\ IsWrite("overwrite")
    /\ Len(call.documents) = 1
    /\ count_documents(prev) = 2
    /\ Present(prev, call.documents[1].id)
    /\ MatchId(prev, call.documents[1].id)[1].content # call.documents[1].content
    /\ MatchId(prev, call.documents[1].id)[1].meta_STRING # <<>>
    /\ call.documents[1].meta = <<>>
    /\ outcome.value = 1
    /\ count_documents(rows) = 2

\* C3: under policy SKIP the call returns the number of documents whose id
\* was not stored when the loop reached them, the count grows by exactly
\* that number, and every row stored before is unchanged.
C3_SkipCountsOnlyNew ==
    IsWrite("skip") =>
      LET documents == call.documents
          n == Len(documents)
          fresh == (1..n) \ PresentWhenReached(prev, documents)
      IN
      /\ outcome.kind = "return"
      /\ outcome.value = Cardinality(fresh)
      /\ count_documents(rows) = count_documents(prev) + Cardinality(fresh)
      /\ \A id \in StoredIds(prev) : MatchId(rows, id) = MatchId(prev, id)
      /\ \A i \in fresh : MatchId(rows, documents[i].id) = <<NewRow(documents[i])>>

C3_Witness ==
    /\ IsWrite("skip")
    /\ Len(call.documents) = 2
    /\ call.documents[1].id = call.documents[2].id
    /\ call.documents[1] # call.documents[2]
    /\ ~Present(prev, call.documents[1].id)
    /\ count_documents(prev) = 1
    /\ outcome.value = 1

\* The positions of the id list whose id is not stored when the loop reaches
\* them: never stored, or deleted by an earlier element of the list.
AbsentWhenReached(table, document_ids) ==
    {i \in 1..Len(document_ids) :
        \/ ~Present(table, document_ids[i])
        \/ \E j \in 1..(i - 1) : document_ids[j] = document_ids[i]}

RECURSIVE WithoutIds(_, _, _)
WithoutIds(table, document_ids, upto) ==
    IF upto = 0 THEN table
    ELSE SelectSeq(WithoutIds(table, document_ids, upto - 1),
                   LAMBDA r : r.id # document_ids[upto])

\* C4: delete_documents reaching an id that is not stored raises
\* MissingDocumentError there; the ids before it stay deleted and nothing
\* else changes.
C4_DeleteAbsentRaisesMissing ==
    call.op = "delete_documents" =>
      LET absent == AbsentWhenReached(prev, call.document_ids) IN
      absent # {} =>
        LET k == Min(absent) IN
        /\ outcome.kind = "raise"
        /\ outcome.error = "MissingDocumentError"
        /\ outcome.at = k
        /\ rows = WithoutIds(prev, call.document_ids, k - 1)

\* C5: delete_documents with one stored id returns, the count drops by
\* exactly 1, the id is no longer stored, and filter_documents() gives the
\* documents it gave before without that one, each unchanged.
C5_DeleteRemovesExactlyOne ==
    (/\ call.op = "delete_documents"
     /\ Len(call.document_ids) = 1
     /\ Present(prev, call.document_ids[1])) =>
      /\ outcome.kind = "return"
      /\ count_documents(rows) = count_documents(prev) - 1
      /\ ~Present(rows, call.document_ids[1])
      /\ FilterDocuments(rows, NoFilters).out.documents =
           SelectSeq(FilterDocuments(prev, NoFilters).out.documents,
                     LAMBDA d : d.id # call.document_ids[1])

C5_Witness ==
    /\ call.op = "delete_documents"
    /\ Len(call.document_ids) = 1
    /\ Present(prev, call.document_ids[1])
    /\ count_documents(prev) = 2
    /\ count_documents(rows) = 1
    /\ rows[1].meta_INT # <<>>

\* C10: the table never holds two rows of one id and the count is the number
\* of stored ids; a write under policy NONE that reaches a stored id adds no
\* row, deletes none, leaves that id's row as it was and returns no number.
C10_OneRowPerId ==
    /\ \A id \in StoredIds(rows) : Len(MatchId(rows, id)) = 1
    /\ count_documents(rows) = Cardinality(StoredIds(rows))
    /\ IsWrite("none") =>
         LET documents == call.documents
             dups == PresentWhenReached(prev, documents)
         IN  dups # {} =>
               LET k == Min(dups)
                   id == documents[k].id
               IN
               /\ outcome.kind = "raise"
               /\ outcome.at = k
               /\ \A i \in 1..Len(prev) : \E j \in 1..Len(rows) : rows[j] = prev[i]
               /\ MatchId(rows, id) =
                    (IF Present(prev, id) THEN MatchId(prev, id)
                     ELSE <<NewRow(documents[Min({j \in 1..k : documents[j].id = id})])>>)
               /\ count_documents(rows) = count_documents(prev) + (k - 1)

C10_Witness ==
    /\ IsWrite("none")
    /\ Len(call.documents) = 2
    /\ ~Present(prev, call.documents[1].id)
    /\ Present(prev, call.documents[2].id)
    /\ MatchId(prev, call.documents[2].id)[1].content # call.documents[2].content
    /\ outcome.kind = "raise"
    /\ outcome.error = "RuntimeError"

(***************************************************************************)
(* Properties of the filter compiler and of the codec.                     *)
(***************************************************************************)
\* What a filter asks of a document, on the document's metadata.
HoldsComparison(doc, condition) ==
    LET key == condition.field.key
        value == condition.value
        op == condition.operator
    IN  /\ HasKey(doc.meta, key)
        /\ LET a == Get(doc.meta, key) IN
           CASE op = "==" -> Order(a, value) = 0
             [] op = "!=" -> Order(a, value) # 0
             [] op = ">=" -> Order(a, value) >= 0
             [] op = "<=" -> Order(a, value) <= 0
             [] op = ">" -> Order(a, value) > 0
             [] op = "<" -> Order(a, value) < 0
             [] op = "in" -> \E i \in 1..Len(value.items) : Order(a, value.items[i]) = 0
             [] op = "not in" ->
                  ~\E i \in 1..Len(value.items) : Order(a, value.items[i]) = 0

RECURSIVE Holds(_, _)
Holds(doc, filters) ==
    IF "conditions" \notin DOMAIN filters THEN HoldsComparison(doc, filters)
    ELSE LET n == Len(filters.conditions)
             operator == Upper(filters.operator)
         IN  CASE operator = "AND" -> \A i \in 1..n : Holds(doc, filters.conditions[i])
               [] operator = "OR" -> \E i \in 1..n : Holds(doc, filters.conditions[i])
               [] operator = "NOT" -> ~\A i \in 1..n : Holds(doc, filters.conditions[i])

RECURSIVE Operators(_)
Operators(filters) ==
    IF "conditions" \notin DOMAIN filters THEN {}
    ELSE {Upper(filters.operator)}
           \cup UNION {Operators(filters.conditions[i]) : i \in 1..Len(filters.conditions)}

StoredDocuments(table) == FilterDocuments(table, NoFilters).out.documents

IsLogicCall(operators) ==
    /\ call.op = "filter_documents"
    /\ "conditions" \in DOMAIN call.filters
    /\ Operators(call.filters) \subseteq operators

MatchesChildren ==
    /\ outcome.kind = "return"
    /\ outcome.documents =
         SelectSeq(StoredDocuments(rows), LAMBDA d : Holds(d, call.filters))

\* filter_documents with a Logic filter over AND and OR alone returns exactly
\* the documents that satisfy it, at every depth.
AndOrFollowChildren == IsLogicCall({"AND", "OR"}) => MatchesChildren

\* C6: a Logic filter with operator NOT over a single Comparison child c
\* returns exactly the stored documents that do not satisfy c.
C6_NotNegatesComparison ==
    (/\ call.op = "filter_documents"
     /\ "conditions" \in DOMAIN call.filters
     /\ Upper(call.filters.operator) = "NOT"
     /\ Len(call.filters.conditions) = 1
     /\ "conditions" \notin DOMAIN call.filters.conditions[1]) =>
      /\ outcome.kind = "return"
      /\ outcome.documents =
           SelectSeq(StoredDocuments(rows),
                     LAMBDA d : ~HoldsComparison(d, call.filters.conditions[1]))

\* C7: for `in` / `not in` on a meta field, a list value builds the
\* membership predicate over the elements' literals, and only a value that
\* is not a list is refused.
C7_MembershipBuilds ==
    (/\ call.op = "filter_documents"
     /\ "field" \in DOMAIN call.filters
     /\ call.filters.operator \in {"in", "not in"}
     /\ call.filters.field.prefix = "meta.") =>
      LET built == _build_single_condition(call.filters)
          value == call.filters.value
      IN  IF IsInstanceList(value)
            THEN /\ built.ok
                 /\ Len(built.text) = 3
                 /\ built.text[1].tok = "access"
                 /\ built.text[1].key = call.filters.field.key
                 /\ built.text[2] =
                      Op(IF call.filters.operator = "in" THEN "IN" ELSE "NOT IN")
                 /\ built.text[3] = ListLiteral(value)
                 /\ outcome.kind = "return"
          ELSE /\ ~built.ok
               /\ outcome.kind = "raise"
               /\ outcome.error = "ValueError"

IsCodecWrite ==
    /\ call.op = "write_documents"
    /\ Len(call.documents) = 1
    /\ ~Present(prev, call.documents[1].id)

Supported(v) == v.t \in {"str", "int", "float"}
KeysOfType(meta, types) == {meta[i].k : i \in {j \in 1..Len(meta) : meta[j].v.t \in types}}
BucketKeys(bucket) == {bucket.key[i] : i \in 1..Len(bucket.key)}
ReadBack(id) == RowToDocument(MatchId(rows, id)[1])

\* C8: a metadata value that is not a str, an int or a float (a bool, None,
\* a list) lands in none of the three buckets, the write returns, and the
\* document reads back with exactly the other keys.
C8_UnsupportedDropped ==
    IsCodecWrite =>
      LET meta == call.documents[1].meta
          categorized_meta == _categorize_meta(meta)
          dropped == KeysOfType(meta, {"bool", "none", "list"})
      IN  /\ outcome.kind = "return"
          /\ dropped \cap (BucketKeys(categorized_meta.meta_STRING)
                             \cup BucketKeys(categorized_meta.meta_INT)
                             \cup BucketKeys(categorized_meta.meta_FLOAT)) = {}
          /\ Keys(ReadBack(call.documents[1].id).meta) = Keys(meta) \ dropped

\* C9: metadata whose values are all str, int or float has each key in
\* exactly one bucket, and the document reads back with metadata equal to it.
C9_MetaRoundTrip ==
    (IsCodecWrite /\ \A i \in 1..Len(call.documents[1].meta) :
                        Supported(call.documents[1].meta[i].v)) =>
      LET meta == call.documents[1].meta
          categorized_meta == _categorize_meta(meta)
          S == BucketKeys(categorized_meta.meta_STRING)
          I == BucketKeys(categorized_meta.meta_INT)
          F == BucketKeys(categorized_meta.meta_FLOAT)
      IN  /\ S \cup I \cup F = Keys(meta)
          /\ S \cap I = {} /\ S \cap F = {} /\ I \cap F = {}
          /\ outcome.kind = "return"
          /\ DictEq(ReadBack(call.documents[1].id).meta, meta)

====
